---- MODULE Spec2Model ----
(***************************************************************************)
(* Storage layer of the drill-plan scheduler: the IStorage port and its    *)
(* three adapters (DatabaseStorage over PostgreSQL, FirebaseStorage over   *)
(* Firestore, FirebaseStorage over the Realtime Database).  One behaviour  *)
(* runs one adapter, chosen in Init; every action is one completed port    *)
(* operation.                                                              *)
(***************************************************************************)
EXTENDS Integers, Sequences, FiniteSets, TLC

VARIABLES backend, commands, plans, files, notes, history, blobs, nextId, now, last,
          inflight, size

vars == <<backend, commands, plans, files, notes, history, blobs, nextId, now, last, inflight, size>>

(* ------------------------------ bounds --------------------------------- *)
MaxCommands == 1
MaxPlans == 2
MaxFiles == 1
MaxNotes == 1
MaxDate == 2
MaxTime == 2
MaxAttachments == 2
MaxRacePlans == 3

(* --------------------------- value domains ----------------------------- *)
Backends == {"sql", "firestore", "rtdb"}
FlightTypes == {"alpha", "tango", "both"}
EventTypes == {"drill", "class"}
Dates == 1..MaxDate

\* undefined / null of the source
Undefined == "undefined"
NoId == -1
NoDate == -1
\* an id that no adapter ever generated (a request for something never created)
ForeignId == 0
\* a reference property that is present with the value undefined; NoId in a
\* file's drillPlanId / commandId is the null the upload handlers pass
UndefinedId == -2

CommandInputs ==
  { [name |-> "Rifle Inspection", type |-> "drill"],
    [name |-> "First Aid", type |-> "class"] }

FileInputs ==
  { [fileName |-> "plan.pdf", filePath |-> "uploads/plan.pdf", fileSize |-> 0, mimeType |-> "application/pdf"],
    [fileName |-> "map.png", filePath |-> "uploads/map.png", fileSize |-> 5, mimeType |-> "image/png"] }

NoteInputs == { [content |-> "bring rifles", authorName |-> "Sgt" ] }

(* ---------------------- dates as each backend stores them -------------- *)
\* PostgreSQL keeps a timestamp, Firestore a Timestamp.fromDate(d), the
\* Realtime Database the string d.toISOString().
EncodeDate(d) ==
  IF d = NoDate THEN [k |-> "undefined", v |-> NoDate]
  ELSE IF backend = "sql" THEN [k |-> "timestamp", v |-> d]
  ELSE IF backend = "firestore" THEN [k |-> "Timestamp", v |-> d]
  ELSE [k |-> "iso", v |-> d]

\* timestampToDate / new Date(iso); new Date(undefined) is an Invalid Date,
\* whose getTime() is NaN, written NoDate here.
DecodeDate(x) ==
  IF backend = "sql" /\ x.k = "timestamp" THEN x.v
  ELSE IF backend = "firestore" /\ x.k = "Timestamp" THEN x.v
  ELSE IF backend = "rtdb" /\ x.k = "iso" THEN x.v
  ELSE NoDate

PlanDate(p) == DecodeDate(p.date)

(* ------------------------------ the store ------------------------------ *)
Store ==
  [commands |-> commands, plans |-> plans, files |-> files, notes |-> notes,
   history |-> history, blobs |-> blobs]

Ids(rows) == { r.id : r \in rows }

Row(rows, id) == CHOOSE r \in rows : r.id = id

Outcome(st, result, ret) == [st |-> st, result |-> result, ret |-> ret]

(* --------------------------- commands ---------------------------------- *)
getDrillCommand(st, id) ==
  IF id \in Ids(st.commands) THEN "defined" ELSE "undefined"

\* drill_commands.type is an enum column; name is text NOT NULL, which an
\* empty string satisfies; addDoc() and set() take any string
createDrillCommand(st, command, id) ==
  IF backend = "sql" /\ command.type \notin EventTypes THEN Outcome(st, "error", NoId)
  ELSE
  Outcome([st EXCEPT !.commands = @ \cup {[id |-> id, name |-> command.name, type |-> command.type]}],
          "ok", id)

MergeCommand(row, partial) ==
  [id |-> row.id,
   name |-> IF partial.name = Undefined THEN row.name ELSE partial.name,
   type |-> IF partial.type = Undefined THEN row.type ELSE partial.type]

\* UPDATE ... RETURNING finds no row, updateDoc rejects a missing document,
\* update() writes the fields at the path whether or not it held a command
updateDrillCommand(st, id, partial) ==
  IF id \notin Ids(st.commands) /\ backend = "sql" THEN Outcome(st, "undefined", NoId)
  ELSE IF id \notin Ids(st.commands) /\ backend = "firestore" THEN Outcome(st, "error", NoId)
  ELSE LET old == IF id \in Ids(st.commands) THEN Row(st.commands, id)
                  ELSE [id |-> id, name |-> Undefined, type |-> Undefined]
       IN Outcome([st EXCEPT !.commands = { c \in @ : c.id # id } \cup {MergeCommand(old, partial)}],
                  "defined", id)

(* ------------------------------ plans ---------------------------------- *)
\* a history row that takes its flightType from the plan's flightAssignment
HistoryRowOfAssignment(n, plan, id, flight) ==
  [id |-> <<id, n>>, commandId |-> plan.commandId, drillPlanId |-> id,
   flightType |-> plan.flightAssignment, executedAt |-> EncodeDate(plan.date)]

HistoryRow(n, plan, id, flight) ==
  [id |-> <<id, n>>, commandId |-> plan.commandId, drillPlanId |-> id,
   flightType |-> flight, executedAt |-> EncodeDate(plan.date)]

\* FanOut without the second insert
FanOutFirstRowOnly(plan, id) ==
  {HistoryRow(1, plan, id, IF plan.flightAssignment = "both" THEN "alpha" ELSE plan.flightAssignment)}

\* the one or two commandExecutionHistory rows written after the plan row
FanOut(plan, id) ==
  {HistoryRow(1, plan, id, IF plan.flightAssignment = "both" THEN "alpha" ELSE plan.flightAssignment)}
  \cup (IF plan.flightAssignment = "both" THEN {HistoryRow(2, plan, id, "tango")} ELSE {})

\* the history rows of a new plan, last one first
WriteOrderTangoFirst(plan, id) ==
  LET rows == FanOut(plan, id)
      n == Cardinality(rows)
  IN [i \in 1..n |-> CHOOSE h \in rows : h.id[2] = n + 1 - i]

\* the history rows of a new plan in the order of their inserts: the row of
\* the first insert, then for both the tango row
WriteOrder(plan, id) ==
  LET rows == FanOut(plan, id)
  IN [i \in 1..Cardinality(rows) |-> CHOOSE h \in rows : h.id[2] = i]

\* one insert into commandExecutionHistory: PostgreSQL checks the two
\* foreign keys, addDoc() and set() write whatever they are given
insertHistory(st, row) ==
  IF /\ backend = "sql"
     /\ \/ row.drillPlanId \notin Ids(st.plans)
        \/ row.commandId \notin Ids(st.commands)
  THEN Outcome(st, "error", NoId)
  ELSE Outcome([st EXCEPT !.history = @ \cup {row}], "ok", row.id)

\* a value every backend refuses to write: NOT NULL violation in PostgreSQL,
\* an undefined field value in set() and addDoc(); PostgreSQL also checks the
\* foreign key and the enum columns
HasUndefined(plan) ==
  \/ plan.date = NoDate
  \/ plan.flightAssignment = Undefined
  \/ plan.commandId = NoId
  \/ plan.eventType = Undefined

\* createDrillPlan that inserts the plan row and no execution history
createDrillPlanWithoutHistory(st, plan, id, t) ==
  IF HasUndefined(plan) THEN Outcome(st, "error", NoId)
  ELSE IF /\ backend = "sql"
          /\ \/ plan.commandId \notin Ids(st.commands)
             \/ plan.flightAssignment \notin FlightTypes
             \/ plan.eventType \notin EventTypes
  THEN Outcome(st, "error", NoId)
  ELSE Outcome([st EXCEPT
                  !.plans = @ \cup {[id |-> id, date |-> EncodeDate(plan.date),
                                     flightAssignment |-> plan.flightAssignment,
                                     commandId |-> plan.commandId,
                                     eventType |-> plan.eventType,
                                     createdAt |-> t, updatedAt |-> t]}],
               "ok", id)

createDrillPlan(st, plan, id, t) ==
  IF HasUndefined(plan) THEN Outcome(st, "error", NoId)
  ELSE IF /\ backend = "sql"
          /\ \/ plan.commandId \notin Ids(st.commands)
             \/ plan.flightAssignment \notin FlightTypes
             \/ plan.eventType \notin EventTypes
  THEN Outcome(st, "error", NoId)
  ELSE Outcome([st EXCEPT
                  !.plans = @ \cup {[id |-> id, date |-> EncodeDate(plan.date),
                                     flightAssignment |-> plan.flightAssignment,
                                     commandId |-> plan.commandId,
                                     eventType |-> plan.eventType,
                                     createdAt |-> t, updatedAt |-> t]},
                  !.history = @ \cup FanOut(plan, id)],
               "ok", id)

\* the joined view of getDrillPlan, or Undefined: the inner join of PostgreSQL
\* and the explicit check of the Realtime Database adapter drop a plan whose
\* command is missing; the Firestore adapter returns it with command undefined
getDrillPlan(st, id) ==
  IF id \notin Ids(st.plans) THEN "undefined"
  ELSE IF backend # "firestore" /\ Row(st.plans, id).commandId \notin Ids(st.commands)
  THEN "undefined"
  ELSE "defined"

\* the command of a plan's joined view: the joined drill_commands row, or the
\* result of getDrillCommand(plan.commandId)
joinedCommand(st, plan) == getDrillCommand(st, plan.commandId)

\* the lists getAllDrillPlans can return: PostgreSQL inner-joins the command
\* and orders by date; the Firebase adapters return every plan with
\* command: command!, ordered by date; a comparator that meets an Invalid
\* Date returns NaN and leaves the order open
getAllDrillPlans(st) ==
  LET rows == IF backend = "sql" THEN { q \in st.plans : q.commandId \in Ids(st.commands) }
              ELSE st.plans
      n == Cardinality(rows)
      ordered == { s \in [1..n -> rows] :
                     /\ \A i, j \in 1..n : i # j => s[i] # s[j]
                     /\ \/ \E q \in rows : PlanDate(q) = NoDate
                        \/ \A i, j \in 1..n : i < j => PlanDate(s[i]) <= PlanDate(s[j]) }
  IN { [i \in 1..n |-> [id |-> s[i].id, date |-> PlanDate(s[i]),
                         command |-> joinedCommand(st, s[i])]] : s \in ordered }

getDrillPlanFiles(st, drillPlanId) == { f \in st.files : f.drillPlanId = drillPlanId }

\* the notes of the joined view: by plan in PostgreSQL, by the plan's command
\* in the Firebase adapters
getDrillPlanNotes(st, id) ==
  IF backend = "sql" THEN { n \in st.notes : n.drillPlanId = id }
  ELSE { n \in st.notes : n.commandId = Row(st.plans, id).commandId }

\* the row after SET / updateDoc / update with the fields present in partial
Merge(row, partial, t) ==
  [id |-> row.id,
   date |-> IF partial.date = NoDate THEN row.date ELSE EncodeDate(partial.date),
   flightAssignment |-> IF partial.flightAssignment = Undefined THEN row.flightAssignment
                        ELSE partial.flightAssignment,
   commandId |-> IF partial.commandId = NoId THEN row.commandId ELSE partial.commandId,
   eventType |-> IF partial.eventType = Undefined THEN row.eventType ELSE partial.eventType,
   createdAt |-> row.createdAt,
   updatedAt |-> t]

\* what update() finds at a path that holds nothing
EmptyPlan(id) ==
  [id |-> id, date |-> EncodeDate(NoDate), flightAssignment |-> Undefined,
   commandId |-> NoId, eventType |-> Undefined, createdAt |-> 0, updatedAt |-> 0]

\* an update that also moves the plan's history rows to the row's date
ReplacePlanAndHistory(st, id, row) ==
  [st EXCEPT !.plans = { p \in @ : p.id # id } \cup {row},
             !.history = { IF h.drillPlanId = id THEN [h EXCEPT !.executedAt = row.date] ELSE h : h \in @ }]

ReplacePlan(st, id, row) ==
  [st EXCEPT !.plans = { p \in @ : p.id # id } \cup {row}]

updateDrillPlan(st, id, partial, t) ==
  IF backend = "sql" THEN
    IF id \notin Ids(st.plans) THEN Outcome(st, "undefined", NoId)
    ELSE IF partial.commandId # NoId /\ partial.commandId \notin Ids(st.commands)
    THEN Outcome(st, "error", NoId)
    ELSE Outcome(ReplacePlan(st, id, Merge(Row(st.plans, id), partial, t)), "defined", id)
  ELSE IF backend = "firestore" THEN
    IF id \notin Ids(st.plans) THEN Outcome(st, "error", NoId)
    ELSE LET st2 == ReplacePlan(st, id, Merge(Row(st.plans, id), partial, t))
         IN Outcome(st2, getDrillPlan(st2, id), id)
  ELSE
    LET old == IF id \in Ids(st.plans) THEN Row(st.plans, id) ELSE EmptyPlan(id)
        st2 == ReplacePlan(st, id, Merge(old, partial, t))
    IN Outcome(st2, getDrillPlan(st2, id), id)

\* a delete that takes every file, note and history row of the plan's command
deleteDrillPlanOfCommand(st, id) ==
  IF id \notin Ids(st.plans) THEN Outcome(st, "false", NoId)
  ELSE LET c == Row(st.plans, id).commandId IN
       Outcome([st EXCEPT !.plans = { p \in @ : p.id # id },
                          !.files = { f \in @ : f.commandId # c },
                          !.notes = { n \in @ : n.commandId # c },
                          !.history = { h \in @ : h.commandId # c }],
               "true", NoId)

\* ON DELETE cascade of drill_plan_files, drill_plan_notes and
\* command_execution_history on drill_plans; the Firebase adapters remove the
\* plan node only, and report true whatever was there
deleteDrillPlan(st, id) ==
  IF backend = "sql" THEN
    IF id \notin Ids(st.plans) THEN Outcome(st, "false", NoId)
    ELSE Outcome([st EXCEPT !.plans = { p \in @ : p.id # id },
                            !.files = { f \in @ : f.drillPlanId # id },
                            !.notes = { n \in @ : n.drillPlanId # id },
                            !.history = { h \in @ : h.drillPlanId # id }],
                 "true", NoId)
  ELSE Outcome([st EXCEPT !.plans = { p \in @ : p.id # id }], "true", NoId)

\* drill_plans.command_id is ON DELETE no action: the statement fails while a
\* plan references the command; files and history cascade on the command
deleteDrillCommand(st, id) ==
  IF backend = "sql" THEN
    IF id \notin Ids(st.commands) THEN Outcome(st, "false", NoId)
    ELSE IF \E p \in st.plans : p.commandId = id THEN Outcome(st, "error", NoId)
    ELSE Outcome([st EXCEPT !.commands = { c \in @ : c.id # id },
                            !.files = { f \in @ : f.commandId # id },
                            !.history = { h \in @ : h.commandId # id }],
                 "true", NoId)
  ELSE Outcome([st EXCEPT !.commands = { c \in @ : c.id # id }], "true", NoId)

(* ----------------------- execution history ----------------------------- *)
\* getLastExecutionByFlight ordered by executedAt ascending
getEarliestExecutionByFlight(st, commandId, flight) ==
  LET filtered == { h \in st.history : h.commandId = commandId /\ h.flightType = flight }
  IN { h \in filtered : \A g \in filtered : DecodeDate(h.executedAt) <= DecodeDate(g.executedAt) }

\* the rows that can come first when the rows of (commandId, flight) are
\* ordered by executedAt descending: ORDER BY ... DESC LIMIT 1, limit(1), and
\* filter / sort / [0]; empty when no row matches
getLastExecutionByFlight(st, commandId, flight) ==
  LET filtered == { h \in st.history : h.commandId = commandId /\ h.flightType = flight }
  IN { h \in filtered : \A g \in filtered : DecodeDate(g.executedAt) <= DecodeDate(h.executedAt) }

(* ------------------------------ files ---------------------------------- *)
\* a reference as the adapter reads it back: PostgreSQL and Firestore keep a
\* null, the Realtime Database drops a null child, so the property is
\* undefined in the record that snapshotToArray builds
ReadReference(ref) ==
  IF backend = "rtdb" /\ ref = NoId THEN UndefinedId ELSE ref

\* the reference a row holds: an undefined value becomes the column's null in
\* PostgreSQL; the Firebase adapters never get to store one
StoredReference(ref) == IF ref = UndefinedId THEN NoId ELSE ref

\* a foreign key must name a stored row in PostgreSQL; addDoc() and set()
\* reject an object that holds an undefined value
createDrillPlanFile(st, file, id) ==
  IF /\ backend = "sql"
     /\ \/ StoredReference(file.drillPlanId) \notin Ids(st.plans) \cup {NoId}
        \/ StoredReference(file.commandId) \notin Ids(st.commands) \cup {NoId}
  THEN Outcome(st, "error", NoId)
  ELSE IF backend # "sql" /\ UndefinedId \in {file.drillPlanId, file.commandId}
  THEN Outcome(st, "error", NoId)
  ELSE Outcome([st EXCEPT !.files = @ \cup
                  {[id |-> id, drillPlanId |-> StoredReference(file.drillPlanId),
                    commandId |-> StoredReference(file.commandId),
                    fileName |-> file.fileName, filePath |-> file.filePath,
                    fileSize |-> file.fileSize, mimeType |-> file.mimeType]}],
               "ok", id)

\* getFileById that reads the fields of a snapshot without checking exists()
getFileByIdUnchecked(st, id) == IF id \in Ids(st.files) THEN "defined" ELSE "error"

getFileById(st, id) == IF id \in Ids(st.files) THEN "defined" ELSE "undefined"

\* PostgreSQL deletes the row; the Firebase adapters first delete the blob at
\* filePath, and deleteObject on a missing object throws into the catch
deleteDrillPlanFile(st, id) ==
  IF backend = "sql" THEN
    IF id \notin Ids(st.files) THEN Outcome(st, "false", NoId)
    ELSE Outcome([st EXCEPT !.files = { f \in @ : f.id # id }], "true", NoId)
  ELSE IF id \notin Ids(st.files) THEN Outcome(st, "true", NoId)
  ELSE LET file == Row(st.files, id) IN
       IF file.filePath \notin st.blobs THEN Outcome(st, "false", NoId)
       ELSE Outcome([st EXCEPT !.blobs = @ \ {file.filePath},
                               !.files = { f \in @ : f.id # id }],
                    "true", NoId)

(* ------------------------------ notes ---------------------------------- *)
\* createDrillPlanNote (a note of a plan) in PostgreSQL, createCommandNote
\* (a note of a command) in the Firebase adapters
createNote(st, note, id, t) ==
  IF backend = "sql" /\ note.drillPlanId \notin Ids(st.plans)
  THEN Outcome(st, "error", NoId)
  ELSE Outcome([st EXCEPT !.notes = @ \cup
                  {[id |-> id,
                    drillPlanId |-> IF backend = "sql" THEN note.drillPlanId ELSE NoId,
                    commandId |-> IF backend = "sql" THEN NoId ELSE note.commandId,
                    content |-> note.content, authorName |-> note.authorName,
                    createdAt |-> t]}],
               "ok", id)

deleteNote(st, id) ==
  IF backend = "sql" THEN
    IF id \notin Ids(st.notes) THEN Outcome(st, "false", NoId)
    ELSE Outcome([st EXCEPT !.notes = { n \in @ : n.id # id }], "true", NoId)
  ELSE Outcome([st EXCEPT !.notes = { n \in @ : n.id # id }], "true", NoId)

(* --------------------------- duplication ------------------------------- *)
MinId(rows) == CHOOSE i \in Ids(rows) : \A j \in Ids(rows) : i <= j

\* for (const file of originalPlan.files) createDrillPlanFile({...})
\* stops at the first createDrillPlanFile that throws, the copies made so
\* far stay
RECURSIVE CopyFiles(_, _, _, _)
\* a copy loop that skips every file
CopyNoFiles(st, srcFiles, newPlanId, fileId) == Outcome(st, "ok", NoId)

CopyFiles(st, srcFiles, newPlanId, fileId) ==
  IF srcFiles = {} THEN Outcome(st, "ok", NoId)
  ELSE LET file == Row(srcFiles, MinId(srcFiles))
           o == createDrillPlanFile(st, [drillPlanId |-> newPlanId,
                                         commandId |-> ReadReference(file.commandId),
                                         fileName |-> file.fileName,
                                         filePath |-> file.filePath,
                                         fileSize |-> file.fileSize,
                                         mimeType |-> file.mimeType], fileId)
       IN IF o.result = "error" THEN Outcome(st, "error", NoId)
          ELSE CopyFiles(o.st, srcFiles \ {file}, newPlanId, fileId + 1)

\* for (const note of originalPlan.notes) createDrillPlanNote({...}), PostgreSQL only
RECURSIVE CopyNotes(_, _, _, _, _)
CopyNotes(st, srcNotes, newPlanId, noteId, t) ==
  IF srcNotes = {} THEN st
  ELSE LET note == Row(srcNotes, MinId(srcNotes))
           o == createNote(st, [note EXCEPT !.drillPlanId = newPlanId], noteId, t)
       IN CopyNotes(o.st, srcNotes \ {note}, newPlanId, noteId + 1, t)

\* copyDrillPlan that schedules the copy on the source plan's date
copyDrillPlanSameDate(st, id, newDate, ids, t) ==
  LET originalPlan == Row(st.plans, id)
      created == createDrillPlan(st, [date |-> PlanDate(originalPlan),
                                      flightAssignment |-> originalPlan.flightAssignment,
                                      commandId |-> originalPlan.commandId,
                                      eventType |-> originalPlan.eventType], ids.plan, t)
      copied == CopyFiles(created.st, getDrillPlanFiles(st, id), ids.plan, ids.file)
  IN IF created.result = "error" THEN Outcome(st, "error", NoId)
     ELSE IF copied.result = "error" THEN Outcome(copied.st, "error", NoId)
     ELSE Outcome(copied.st, "defined", ids.plan)

\* duplicateDrillPlan once originalPlan is loaded: createDrillPlan with the
\* new date, then the copy loops
copyDrillPlan(st, id, newDate, ids, t) ==
  LET originalPlan == Row(st.plans, id)
      srcFiles == getDrillPlanFiles(st, id)
      srcNotes == getDrillPlanNotes(st, id)
      created == createDrillPlan(st, [date |-> newDate,
                                      flightAssignment |-> originalPlan.flightAssignment,
                                      commandId |-> originalPlan.commandId,
                                      eventType |-> originalPlan.eventType], ids.plan, t)
      copied == CopyFiles(created.st, srcFiles, ids.plan, ids.file)
      withNotes == IF backend = "sql"
                   THEN CopyNotes(copied.st, srcNotes, ids.plan, ids.note, t)
                   ELSE copied.st
  IN IF created.result = "error" THEN Outcome(st, "error", NoId)
     ELSE IF copied.result = "error" THEN Outcome(copied.st, "error", NoId)
     ELSE Outcome(withNotes, "defined", ids.plan)

\* duplicateDrillPlan without "if (!originalPlan) return undefined": reading
\* a property of undefined throws
duplicateDrillPlanUnchecked(st, id, newDate, ids, t) ==
  IF id \notin Ids(st.plans) THEN Outcome(st, "error", NoId)
  ELSE copyDrillPlan(st, id, newDate, ids, t)

duplicateDrillPlan(st, id, newDate, ids, t) ==
  IF getDrillPlan(st, id) = "undefined" THEN Outcome(st, "undefined", NoId)
  ELSE copyDrillPlan(st, id, newDate, ids, t)

(* --------------------- reads and unreachable backends ------------------ *)
ReadOps ==
  {"getCommand", "getPlan", "listFilesByPlan", "listFilesByCommand", "listNotes",
   "listHistory", "lastExecutionByFlight"}

\* what a read returns when nothing matches: undefined from the lookups of
\* one record, [] from the lists
EmptyResult(op) ==
  IF op \in {"getCommand", "getPlan", "lastExecutionByFlight"} THEN "undefined" ELSE "empty"

Listed(rows) == IF rows = {} THEN "empty" ELSE "rows"

\* the read operations on a backend that answers
readStore(st, op, id, flight) ==
  IF op = "getCommand" THEN getDrillCommand(st, id)
  ELSE IF op = "getPlan" THEN getDrillPlan(st, id)
  ELSE IF op = "listFilesByPlan" THEN Listed(getDrillPlanFiles(st, id))
  ELSE IF op = "listFilesByCommand" THEN Listed({ f \in st.files : f.commandId = id })
  ELSE IF op = "listNotes"
  THEN Listed(IF backend = "sql" THEN { n \in st.notes : n.drillPlanId = id }
              ELSE { n \in st.notes : n.commandId = id })
  ELSE IF op = "listHistory" THEN Listed({ h \in st.history : h.commandId = id })
  ELSE IF getLastExecutionByFlight(st, id, flight) = {} THEN "undefined" ELSE "defined"

\* the query or get() rejects: DatabaseStorage and the Firestore adapter have
\* no try/catch around their reads, each read of the Realtime Database
\* adapter catches, logs and returns undefined or []
readUnreachable(op) ==
  IF backend = "rtdb" THEN EmptyResult(op) ELSE "error"

(* ------------------------------ pruning -------------------------------- *)
OneGBInBytes == 1024 * 1024 * 1024

\* the largest whole byte count that is <= targetSize = oneGBInBytes -
\* oneGBInBytes * 0.1 (966367641.6), computed without leaving 32 bits
TargetSize == (OneGBInBytes \div 10) * 9 + ((OneGBInBytes % 10) * 9) \div 10

\* pg_database_size(current_database()): a measurement of the server's files,
\* which no row count determines; one sample on each side of the target
SizeSamples == {TargetSize, TargetSize + 1}

\* totalRecords * 1024 of the Firebase adapters
getDatabaseSize(st) ==
  (Cardinality(st.commands) + Cardinality(st.plans) + Cardinality(st.files)
   + Cardinality(st.notes) + Cardinality(st.history)) * 1024

CommandPlans(st, c) == { p \in st.plans : p.commandId = c }

\* the plans that can come first when a command's plans are ordered by date
\* descending: one of the latest; with an Invalid Date in the group the
\* comparator b.date.getTime() - a.date.getTime() yields NaN, is not a
\* consistent order, and leaves the result to the input order
Latest(group) ==
  IF \E p \in group : PlanDate(p) = NoDate THEN group
  ELSE { p \in group : \A q \in group : PlanDate(q) <= PlanDate(p) }

\* the sets of plans that rank first (rn = 1, sortedPlans[0]): one per command
Keepers(st) ==
  { K \in SUBSET st.plans :
      /\ \A p \in K : p \in Latest(CommandPlans(st, p.commandId))
      /\ \A p \in st.plans : Cardinality(K \cap CommandPlans(st, p.commandId)) = 1 }

\* WHERE rn > 1 ORDER BY date ASC: the orderings of the other plans
EvictionLists(st, K) ==
  LET D == st.plans \ K
      n == Cardinality(D)
  IN { s \in [1..n -> D] :
         /\ \A i, j \in 1..n : i # j => s[i] # s[j]
         /\ \A i, j \in 1..n : i < j => PlanDate(s[i]) <= PlanDate(s[j]) }

\* for (const plan of rows) { deleteDrillPlan; newSize = getDatabaseSize();
\* if (newSize <= targetSize) break; }   sizes[i] is the i-th measurement;
\* the outcome carries the measurements taken
RECURSIVE PruneLoop(_, _, _, _)
PruneLoop(st, list, i, sizes) ==
  IF i > Len(list) THEN Outcome(st, "exhausted", SubSeq(sizes, 1, i))
  ELSE LET st2 == deleteDrillPlan(st, list[i].id).st IN
       IF sizes[i + 1] <= TargetSize THEN Outcome(st2, "under", SubSeq(sizes, 1, i + 1))
       ELSE PruneLoop(st2, list, i + 1, sizes)

RECURSIVE DeleteAll(_, _)
DeleteAll(st, D) ==
  IF D = {} THEN st
  ELSE LET p == CHOOSE q \in D : TRUE
       IN DeleteAll(deleteDrillPlan(st, p.id).st, D \ {p})

\* the outcomes of pruneOldData: PostgreSQL measures, ranks and evicts until
\* the size is under the target; the Firebase adapters evict every plan that
\* is not first in its command's group, without measuring
pruneOldData(st) ==
  IF backend = "sql" THEN
    { Outcome(st, "under", <<TargetSize>>) } \cup
    UNION { { PruneLoop(st, list, 1, sizes) :
                sizes \in { f \in [1..(Len(list) + 1) -> SizeSamples] : f[1] > TargetSize } } :
            list \in UNION { EvictionLists(st, K) : K \in Keepers(st) } }
  ELSE { Outcome(DeleteAll(st, st.plans \ K), "exhausted", <<>>) : K \in Keepers(st) }

(* ------------------------- state machine ------------------------------- *)
\* the requests the server can be handling at once: each route handler is an
\* async function, a second request is served while the first one awaits
Invocations == {1, 2}

\* an invocation that is not inside a call
\* rows: what the call is going through, pos: how far it is, made: the ids
\* of the rows it has written
Idle == [op |-> "none", arg |-> NoId, id |-> NoId, rows |-> <<>>, pos |-> 0, made |-> {}]

Apply(o) ==
  /\ commands' = o.st.commands
  /\ plans' = o.st.plans
  /\ files' = o.st.files
  /\ notes' = o.st.notes
  /\ history' = o.st.history
  /\ blobs' = o.st.blobs

Done(op, arg, o) == last' = [op |-> op, arg |-> arg, result |-> o.result, ret |-> o.ret]

Init ==
  /\ backend \in Backends
  /\ commands = {}
  /\ plans = {}
  /\ files = {}
  /\ notes = {}
  /\ history = {}
  /\ blobs = {}
  /\ nextId = [command |-> 1, plan |-> 1, file |-> 1, note |-> 1]
  /\ now = 1
  /\ last = [op |-> "init", arg |-> NoId, result |-> "ok", ret |-> NoId]
  /\ inflight = [k \in Invocations |-> Idle]
  /\ size = TargetSize

\* the ids generated so far, stored or since deleted
Generated(kind) == 1..(nextId[kind] - 1)

\* ids a caller can name: every id generated so far, and one never generated
Known(kind) == {ForeignId} \cup Generated(kind)

\* generateId(), gen_random_uuid(), addDoc: the next unused id of a collection
Allocate(kind, n) == nextId' = [nextId EXCEPT ![kind] = @ + n]

CreateCommand ==
  /\ nextId.command <= MaxCommands
  /\ \E command \in CommandInputs :
       LET o == createDrillCommand(Store, command, nextId.command) IN
       Apply(o) /\ Done("createCommand", command, o)
  /\ Allocate("command", 1)
  /\ UNCHANGED <<size, inflight, backend, now>>

CommandPartials ==
  { [name |-> Undefined, type |-> Undefined],
    [name |-> "Colors", type |-> Undefined],
    [name |-> Undefined, type |-> "class"] }

UpdateCommand ==
  /\ now < MaxTime
  /\ \E id \in Generated("command"), partial \in CommandPartials :
       LET o == updateDrillCommand(Store, id, partial) IN
       Apply(o) /\ Done("updateCommand", id, o)
  /\ now' = now + 1
  /\ UNCHANGED <<size, inflight, backend, nextId>>

DeleteCommand ==
  /\ \E id \in Known("command") :
       LET o == deleteDrillCommand(Store, id) IN
       Apply(o) /\ Done("deleteCommand", id, o)
  /\ UNCHANGED <<size, inflight, backend, nextId, now>>

GetCommand ==
  /\ \E id \in Known("command") :
       last' = [op |-> "getCommand", arg |-> id, result |-> getDrillCommand(Store, id), ret |-> NoId]
  /\ UNCHANGED <<size, inflight, backend, commands, plans, files, notes, history, blobs, nextId, now>>

\* the create form submits the event type "drill"; "class" arrives by update
PlanInputs ==
  [date : Dates, flightAssignment : FlightTypes, commandId : Generated("command"), eventType : {"drill"}]

\* the inputs of the attachment scenarios: one date, one or both flights
FewPlanInputs ==
  { plan \in PlanInputs : plan.date = 1 /\ plan.flightAssignment # "tango" }

CreatePlanFrom(inputs) ==
  /\ nextId.plan <= MaxPlans
  /\ \E plan \in inputs :
       LET o == createDrillPlan(Store, plan, nextId.plan, now) IN
       /\ Apply(o) /\ Done("createPlan", plan, o)
       /\ Allocate("plan", IF o.result = "ok" THEN 1 ELSE 0)
  /\ UNCHANGED <<size, inflight, backend, now>>

\* the partial payloads of PUT /api/drill-plans/:id: no field, one field, or
\* every field but the date
PlanPartials ==
  { p \in [date : Dates \cup {NoDate}, flightAssignment : FlightTypes \cup {Undefined},
           commandId : Generated("command") \cup {NoId}, eventType : {"class", Undefined}] :
      \/ Cardinality({ f \in {"flightAssignment", "eventType"} : p[f] # Undefined })
           + (IF p.date # NoDate THEN 1 ELSE 0) + (IF p.commandId # NoId THEN 1 ELSE 0) <= 1
      \/ p.date = NoDate /\ p.flightAssignment = "both" /\ p.commandId # NoId /\ p.eventType = "class" }

UpdatePlan ==
  /\ now < MaxTime
  /\ \E id \in Generated("plan"), partial \in PlanPartials :
       LET o == updateDrillPlan(Store, id, partial, now + 1) IN
       Apply(o) /\ Done("updatePlan", id, o)
  /\ now' = now + 1
  /\ UNCHANGED <<size, inflight, backend, nextId>>

DeletePlan ==
  /\ \E id \in Known("plan") :
       LET o == deleteDrillPlan(Store, id) IN
       Apply(o) /\ Done("deletePlan", id, o)
  /\ UNCHANGED <<size, inflight, backend, nextId, now>>

GetPlan ==
  /\ \E id \in Known("plan") :
       last' = [op |-> "getPlan", arg |-> id, result |-> getDrillPlan(Store, id), ret |-> NoId]
  /\ UNCHANGED <<size, inflight, backend, commands, plans, files, notes, history, blobs, nextId, now>>

DuplicatePlan ==
  /\ nextId.plan <= MaxPlans
  /\ \E id \in Known("plan"), newDate \in Dates :
       LET o == duplicateDrillPlan(Store, id, newDate, nextId, now)
       IN /\ Apply(o) /\ Done("duplicatePlan", <<id, newDate>>, o)
          /\ nextId' = [nextId EXCEPT
                          !.plan = @ + Cardinality(o.st.plans) - Cardinality(plans),
                          !.file = @ + Cardinality(o.st.files) - Cardinality(files),
                          !.note = @ + Cardinality(o.st.notes) - Cardinality(notes)]
  /\ UNCHANGED <<size, inflight, backend, now>>

\* the upload handler: the blob is moved to filePath, then the row is created
CreateFile ==
  /\ nextId.file <= MaxFiles
  /\ \E input \in FileInputs, drillPlanId \in Generated("plan") \cup {NoId},
        commandId \in Generated("command") \cup {NoId} :
       LET file == [drillPlanId |-> drillPlanId, commandId |-> commandId,
                    fileName |-> input.fileName, filePath |-> input.filePath,
                    fileSize |-> input.fileSize, mimeType |-> input.mimeType]
           st == [Store EXCEPT !.blobs = @ \cup {file.filePath}]
           o == createDrillPlanFile(st, file, nextId.file)
       IN /\ Apply(o) /\ Done("createFile", file, o)
          /\ Allocate("file", IF o.result = "ok" THEN 1 ELSE 0)
  /\ UNCHANGED <<size, inflight, backend, now>>

\* an upload for a stored plan: the handler passes the plan's commandId, the
\* port also admits a null
AttachFile ==
  /\ nextId.file <= MaxAttachments
  /\ \E input \in FileInputs, plan \in plans :
       \E commandId \in {plan.commandId, NoId} :
         LET file == [drillPlanId |-> plan.id, commandId |-> commandId,
                      fileName |-> input.fileName, filePath |-> input.filePath,
                      fileSize |-> input.fileSize, mimeType |-> input.mimeType]
             st == [Store EXCEPT !.blobs = @ \cup {file.filePath}]
             o == createDrillPlanFile(st, file, nextId.file)
         IN /\ Apply(o) /\ Done("createFile", file, o)
            /\ Allocate("file", IF o.result = "ok" THEN 1 ELSE 0)
  /\ UNCHANGED <<size, inflight, backend, now>>

\* payloads the insert schemas reject: an empty name, a type or a
\* flightAssignment outside its enum, a negative fileSize, an empty content
InvalidCommandInputs ==
  { [name |-> "", type |-> "drill"], [name |-> "Colors", type |-> "parade"] }

InvalidPlanInputs ==
  [date : {1}, flightAssignment : {"gamma"}, commandId : Generated("command"), eventType : {"drill"}]

InvalidFileInputs ==
  { [fileName |-> "plan.pdf", filePath |-> "uploads/plan.pdf", fileSize |-> -1, mimeType |-> "application/pdf"] }

InvalidNoteInputs == { [content |-> "", authorName |-> "Sgt"] }

CreateInvalidCommand ==
  /\ nextId.command <= MaxCommands
  /\ \E command \in InvalidCommandInputs :
       LET o == createDrillCommand(Store, command, nextId.command) IN
       /\ Apply(o) /\ Done("createCommand", command, o)
       /\ Allocate("command", IF o.result = "ok" THEN 1 ELSE 0)
  /\ UNCHANGED <<size, inflight, backend, now>>

CreateInvalidPlan == CreatePlanFrom(InvalidPlanInputs)

\* createDrillPlanFile called on the port with a payload of its own
CreateInvalidFile ==
  /\ nextId.file <= MaxFiles
  /\ \E input \in InvalidFileInputs, drillPlanId \in Ids(plans) \cup {NoId} :
       LET file == [drillPlanId |-> drillPlanId, commandId |-> NoId,
                    fileName |-> input.fileName, filePath |-> input.filePath,
                    fileSize |-> input.fileSize, mimeType |-> input.mimeType]
           o == createDrillPlanFile(Store, file, nextId.file)
       IN /\ Apply(o) /\ Done("createFile", file, o)
          /\ Allocate("file", IF o.result = "ok" THEN 1 ELSE 0)
  /\ UNCHANGED <<size, inflight, backend, now>>

CreateInvalidNote ==
  /\ nextId.note <= MaxNotes
  /\ \E input \in InvalidNoteInputs, target \in (IF backend = "sql" THEN Known("plan") ELSE Known("command")) :
       LET note == [drillPlanId |-> target, commandId |-> target,
                    content |-> input.content, authorName |-> input.authorName]
           o == createNote(Store, note, nextId.note, now)
       IN /\ Apply(o) /\ Done("createNote", note, o)
          /\ Allocate("note", IF o.result = "ok" THEN 1 ELSE 0)
  /\ UNCHANGED <<size, inflight, backend, now>>

DeleteFile ==
  /\ \E id \in Known("file") :
       LET o == deleteDrillPlanFile(Store, id) IN
       Apply(o) /\ Done("deleteFile", id, o)
  /\ UNCHANGED <<size, inflight, backend, nextId, now>>

\* getFileById exists in the Firebase adapters only
GetFile ==
  /\ backend # "sql"
  /\ \E id \in Known("file") :
       last' = [op |-> "getFile", arg |-> id, result |-> getFileById(Store, id), ret |-> NoId]
  /\ UNCHANGED <<size, inflight, backend, commands, plans, files, notes, history, blobs, nextId, now>>

CreateNote ==
  /\ nextId.note <= MaxNotes
  /\ \E input \in NoteInputs, target \in (IF backend = "sql" THEN Known("plan") ELSE Known("command")) :
       LET note == [drillPlanId |-> target, commandId |-> target,
                    content |-> input.content, authorName |-> input.authorName]
           o == createNote(Store, note, nextId.note, now)
       IN /\ Apply(o) /\ Done("createNote", note, o)
          /\ Allocate("note", IF o.result = "ok" THEN 1 ELSE 0)
  /\ UNCHANGED <<size, inflight, backend, now>>

DeleteNote ==
  /\ \E id \in Known("note") :
       LET o == deleteNote(Store, id) IN
       Apply(o) /\ Done("deleteNote", id, o)
  /\ UNCHANGED <<size, inflight, backend, nextId, now>>

LastExecution ==
  /\ \E commandId \in Known("command"), flight \in {"alpha", "tango"} :
       LET found == getLastExecutionByFlight(Store, commandId, flight) IN
       \/ /\ found = {}
          /\ last' = [op |-> "lastExecution", arg |-> <<commandId, flight>>,
                      result |-> "undefined", ret |-> NoId]
       \/ \E h \in found :
            last' = [op |-> "lastExecution", arg |-> <<commandId, flight>>,
                     result |-> "defined", ret |-> h.id]
  /\ UNCHANGED <<size, inflight, backend, commands, plans, files, notes, history, blobs, nextId, now>>

ListPlans ==
  /\ \E list \in getAllDrillPlans(Store) :
       last' = [op |-> "listPlans", arg |-> NoId, result |-> "rows", ret |-> list]
  /\ UNCHANGED <<size, inflight, backend, commands, plans, files, notes, history, blobs, nextId, now>>

\* one read, served by the backend or rejected by it
ReadOperation ==
  /\ \E op \in ReadOps, id \in Known("command") \cup Known("plan"), reachable \in BOOLEAN :
     \E flight \in (IF op = "lastExecutionByFlight" THEN {"alpha", "tango"} ELSE {"alpha"}) :
       last' = [op |-> op, arg |-> <<id, flight>>,
                result |-> IF reachable THEN readStore(Store, op, id, flight) ELSE readUnreachable(op),
                ret |-> NoId, reachable |-> reachable]
  /\ UNCHANGED <<size, inflight, backend, commands, plans, files, notes, history, blobs, nextId, now>>

Prune ==
  /\ \E o \in pruneOldData(Store) :
       Apply(o) /\ Done("prune", NoId, o)
  /\ UNCHANGED <<size, inflight, backend, nextId, now>>

CreatePlan == CreatePlanFrom(PlanInputs)

CreateFewPlan == CreatePlanFrom(FewPlanInputs)

(* ---- createDrillPlan write by write: the awaits between the inserts ----- *)
Resume(k, call) == inflight' = [inflight EXCEPT ![k] = call]

\* the first await of createDrillPlan: the plan row is inserted
BeginCreatePlan ==
  /\ nextId.plan <= MaxPlans
  /\ \E k \in Invocations, plan \in FewPlanInputs :
       LET o == createDrillPlan(Store, plan, nextId.plan, now) IN
       /\ inflight[k].op = "none"
       /\ IF o.result = "error"
          THEN /\ Apply(o) /\ Done("createPlan", plan, o)
               /\ UNCHANGED <<inflight, nextId>>
          ELSE /\ Apply(Outcome([o.st EXCEPT !.history = history], "ok", o.ret))
               /\ Resume(k, [op |-> "createPlan", arg |-> plan, id |-> o.ret,
                              rows |-> WriteOrder(plan, o.ret), pos |-> 0, made |-> {}])
               /\ Allocate("plan", 1)
               /\ UNCHANGED last
  /\ UNCHANGED <<size, backend, now>>

\* the next await: one history row is inserted; after the last one the call
\* returns the new plan
InsertHistoryRow ==
  /\ \E k \in Invocations :
       LET call == inflight[k]
           o == insertHistory(Store, call.rows[call.pos + 1])
       IN /\ call.op = "createPlan"
          /\ Apply(o)
          /\ IF o.result = "error"
             THEN Resume(k, Idle) /\ Done("createPlan", call.arg, o)
             ELSE IF call.pos + 1 = Len(call.rows)
             THEN Resume(k, Idle) /\ Done("createPlan", call.arg, Outcome(o.st, "ok", call.id))
             ELSE Resume(k, [call EXCEPT !.pos = @ + 1, !.made = @ \cup {o.ret}]) /\ UNCHANGED last
  /\ UNCHANGED <<size, backend, nextId, now>>

\* the backend rejects the pending insert (connection lost, quota, process
\* killed): the promise rejects, nothing written so far is undone
FailCreatePlan ==
  /\ \E k \in Invocations :
       /\ inflight[k].op = "createPlan"
       /\ Resume(k, Idle)
       /\ Done("createPlan", inflight[k].arg, Outcome(Store, "error", NoId))
  /\ UNCHANGED <<size, backend, commands, plans, files, notes, history, blobs, nextId, now>>

(* ---- duplicateDrillPlan write by write: the awaits of the copy loop ----- *)
\* originalPlan.files in the order the loop visits them
FileOrder(srcFiles) ==
  CHOOSE s \in [1..Cardinality(srcFiles) -> srcFiles] :
    \A i, j \in 1..Cardinality(srcFiles) : i < j => s[i].id < s[j].id

\* the payload the copy loop passes to createDrillPlanFile
FileCopy(file, newPlanId) ==
  [drillPlanId |-> newPlanId, commandId |-> ReadReference(file.commandId),
   fileName |-> file.fileName, filePath |-> file.filePath,
   fileSize |-> file.fileSize, mimeType |-> file.mimeType]

\* getDrillPlan, the early return, and createDrillPlan for the copy
BeginDuplicatePlan ==
  /\ nextId.plan <= MaxPlans
  /\ \E k \in Invocations, id \in Known("plan"), newDate \in Dates :
       /\ inflight[k].op = "none"
       /\ IF getDrillPlan(Store, id) = "undefined"
          THEN /\ Done("duplicatePlan", <<id, newDate>>, Outcome(Store, "undefined", NoId))
               /\ UNCHANGED <<commands, plans, files, notes, history, blobs, nextId, inflight>>
          ELSE LET originalPlan == Row(plans, id)
                   o == createDrillPlan(Store, [date |-> newDate,
                                                flightAssignment |-> originalPlan.flightAssignment,
                                                commandId |-> originalPlan.commandId,
                                                eventType |-> originalPlan.eventType],
                                        nextId.plan, now)
               IN /\ Apply(o)
                  /\ IF o.result = "error"
                     THEN Done("duplicatePlan", <<id, newDate>>, o) /\ UNCHANGED <<nextId, inflight>>
                     ELSE /\ Resume(k, [op |-> "duplicatePlan", arg |-> <<id, newDate>>, id |-> o.ret,
                                         rows |-> FileOrder(getDrillPlanFiles(Store, id)), pos |-> 0,
                                         made |-> {}])
                          /\ Allocate("plan", 1)
                          /\ UNCHANGED last
  /\ UNCHANGED <<size, backend, now>>

\* one round of the copy loop; a createDrillPlanFile that throws ends the call
CopyFileRow ==
  /\ \E k \in Invocations :
       LET call == inflight[k]
           o == createDrillPlanFile(Store, FileCopy(call.rows[call.pos + 1], call.id), nextId.file)
       IN /\ call.op = "duplicatePlan"
          /\ call.pos < Len(call.rows)
          /\ Apply(o)
          /\ IF o.result = "error"
             THEN Resume(k, Idle) /\ Done("duplicatePlan", call.arg, o) /\ UNCHANGED nextId
             ELSE /\ Resume(k, [call EXCEPT !.pos = @ + 1, !.made = @ \cup {o.ret}])
                  /\ Allocate("file", 1)
                  /\ UNCHANGED last
  /\ UNCHANGED <<size, backend, now>>

\* an interrupted copy that answers with the new plan as if it were complete
FailDuplicatePlanSilently ==
  /\ \E k \in Invocations :
       /\ inflight[k].op = "duplicatePlan"
       /\ inflight[k].pos < Len(inflight[k].rows)
       /\ Resume(k, Idle)
       /\ Done("duplicatePlan", inflight[k].arg, Outcome(Store, "defined", inflight[k].id))
  /\ UNCHANGED <<size, backend, commands, plans, files, notes, history, blobs, nextId, now>>

\* the backend rejects the pending createDrillPlanFile: the loop has no
\* try/catch, the promise of duplicateDrillPlan rejects (the route answers
\* 500), the plan and the copies made so far stay
FailDuplicatePlan ==
  /\ \E k \in Invocations :
       /\ inflight[k].op = "duplicatePlan"
       /\ inflight[k].pos < Len(inflight[k].rows)
       /\ Resume(k, Idle)
       /\ Done("duplicatePlan", inflight[k].arg, Outcome(Store, "error", NoId))
  /\ UNCHANGED <<size, backend, commands, plans, files, notes, history, blobs, nextId, now>>

\* after the last file: the note loop of DatabaseStorage, then return newPlan
FinishDuplicatePlan ==
  /\ \E k \in Invocations :
       LET call == inflight[k]
           srcNotes == IF call.arg[1] \in Ids(plans) THEN getDrillPlanNotes(Store, call.arg[1]) ELSE {}
           st == IF backend = "sql" THEN CopyNotes(Store, srcNotes, call.id, nextId.note, now) ELSE Store
       IN /\ call.op = "duplicatePlan"
          /\ call.pos = Len(call.rows)
          /\ Apply(Outcome(st, "defined", call.id))
          /\ Resume(k, Idle)
          /\ Done("duplicatePlan", call.arg, Outcome(st, "defined", call.id))
          /\ Allocate("note", Cardinality(st.notes) - Cardinality(notes))
  /\ UNCHANGED <<size, backend, now>>

(* ------ pruneOldData await by await, next to other requests ------------ *)
\* the size of the database as pg_database_size would report it now; the
\* Firebase adapters estimate it from the record counts
CurrentSize == IF backend = "sql" THEN size ELSE getDatabaseSize(Store)

\* the plans a scheduler files while the database fills up
RacePlanInputs ==
  [date : Dates, flightAssignment : {"alpha"}, commandId : Generated("command"), eventType : {"drill"}]

\* createDrillPlan on a database whose files grow with the inserts
InsertPlanUpTo(max) ==
  /\ nextId.plan <= max
  /\ \E plan \in RacePlanInputs :
       LET o == createDrillPlan(Store, plan, nextId.plan, now) IN
       /\ Apply(o) /\ Done("createPlan", plan, o)
       /\ Allocate("plan", IF o.result = "ok" THEN 1 ELSE 0)
  /\ size' \in { s \in SizeSamples : s >= size }
  /\ UNCHANGED <<inflight, backend, now>>

InsertPlan == InsertPlanUpTo(MaxRacePlans)

InsertFewPlan == InsertPlanUpTo(MaxPlans)

\* plansToDelete of the Firebase adapters: the plans after the first of each
\* command's sorted group, a group's plans from later to earlier
DeletionOrders(st, K) ==
  LET D == st.plans \ K
      n == Cardinality(D)
  IN { s \in [1..n -> D] :
         /\ \A i, j \in 1..n : i # j => s[i] # s[j]
         /\ \A i, j \in 1..n :
              (i < j /\ s[i].commandId = s[j].commandId /\ NoDate \notin {PlanDate(s[i]), PlanDate(s[j])})
                => PlanDate(s[i]) >= PlanDate(s[j]) }

Pruning(k, phase, rows, sizes) ==
  Resume(k, [op |-> "prune", arg |-> NoId, id |-> NoId, rows |-> rows, pos |-> 0, made |-> {},
             phase |-> phase, sizes |-> sizes])

\* the first await: DatabaseStorage measures and returns when the size is
\* within the target; the Firebase adapters load the plans and work out
\* plansToDelete from that snapshot
BeginPruneBy(callers) ==
  /\ \E k \in callers :
       /\ inflight[k].op = "none"
       /\ IF backend = "sql"
          THEN IF size <= TargetSize
               THEN Done("prune", NoId, Outcome(Store, "under", <<size>>)) /\ UNCHANGED inflight
               ELSE Pruning(k, "measured", <<>>, <<size>>) /\ UNCHANGED last
          ELSE \E K \in Keepers(Store) : \E list \in DeletionOrders(Store, K) :
                 IF list = <<>>
                 THEN Done("prune", NoId, Outcome(Store, "exhausted", <<>>)) /\ UNCHANGED inflight
                 ELSE Pruning(k, "listed", list, <<>>) /\ UNCHANGED last
  /\ UNCHANGED <<size, backend, commands, plans, files, notes, history, blobs, nextId, now>>

\* POST /api/database/prune from any client
BeginPrune == BeginPruneBy(Invocations)

\* one client prunes, the others file and edit plans
BeginSinglePrune == BeginPruneBy({1})

\* the second await of DatabaseStorage: the ranked_plans query
ListPrune ==
  /\ \E k \in Invocations :
       /\ inflight[k].op = "prune"
       /\ inflight[k].phase = "measured"
       /\ \E K \in Keepers(Store) : \E list \in EvictionLists(Store, K) :
            IF list = <<>>
            THEN Resume(k, Idle) /\ Done("prune", NoId, Outcome(Store, "exhausted", inflight[k].sizes))
            ELSE Pruning(k, "listed", list, inflight[k].sizes) /\ UNCHANGED last
  /\ UNCHANGED <<size, backend, commands, plans, files, notes, history, blobs, nextId, now>>

\* one round of the loop: deleteDrillPlan of the next plan of the list,
\* whatever became of it since the list was made; DatabaseStorage then
\* measures again and breaks when the size is within the target
DeletePruned ==
  /\ \E k \in Invocations :
       LET call == inflight[k]
           o == deleteDrillPlan(Store, call.rows[call.pos + 1].id)
       IN /\ call.op = "prune"
          /\ call.phase = "listed"
          /\ Apply(o)
          /\ size' \in (IF backend = "sql" /\ o.st.plans # plans
                        THEN { s \in SizeSamples : s <= size } ELSE {size})
          /\ IF backend = "sql" /\ size' <= TargetSize
             THEN Resume(k, Idle) /\ Done("prune", NoId, Outcome(o.st, "under", Append(call.sizes, size')))
             ELSE IF call.pos + 1 = Len(call.rows)
             THEN /\ Resume(k, Idle)
                  /\ Done("prune", NoId,
                          Outcome(o.st, "exhausted",
                                  IF backend = "sql" THEN Append(call.sizes, size') ELSE <<>>))
             ELSE /\ Resume(k, [call EXCEPT !.pos = @ + 1,
                                            !.sizes = IF backend = "sql" THEN Append(@, size') ELSE @])
                  /\ UNCHANGED last
  /\ UNCHANGED <<backend, nextId, now>>

\* plans and their execution history
Next ==
  \/ CreateCommand
  \/ DeleteCommand
  \/ CreatePlan
  \/ UpdatePlan
  \/ DeletePlan
  \/ DuplicatePlan
  \/ Prune

Spec == Init /\ [][Next]_vars

\* lookups in the execution history
NextHistory ==
  \/ CreateCommand
  \/ DeleteCommand
  \/ CreatePlan
  \/ DeletePlan
  \/ LastExecution

SpecHistory == Init /\ [][NextHistory]_vars

\* attachments and deletion
NextFiles ==
  \/ CreateCommand
  \/ DeleteCommand
  \/ CreateFewPlan
  \/ DeletePlan
  \/ DuplicatePlan
  \/ CreateFile
  \/ DeleteFile
  \/ CreateNote
  \/ DeleteNote

SpecFiles == Init /\ [][NextFiles]_vars

\* the read operations
NextReads ==
  \/ CreateCommand
  \/ DeleteCommand
  \/ GetCommand
  \/ CreateFewPlan
  \/ DeletePlan
  \/ GetPlan
  \/ CreateFile
  \/ DeleteFile
  \/ GetFile

SpecReads == Init /\ [][NextReads]_vars

\* duplication of plans with attachments and notes
NextDuplicate ==
  \/ CreateCommand
  \/ CreateFewPlan
  \/ DeletePlan
  \/ AttachFile
  \/ CreateNote
  \/ DuplicatePlan

SpecDuplicate == Init /\ [][NextDuplicate]_vars

\* creation with payloads the insert schemas reject
NextInvalid ==
  \/ CreateCommand
  \/ CreateInvalidCommand
  \/ DeleteCommand
  \/ CreateFewPlan
  \/ CreateInvalidPlan
  \/ DeletePlan
  \/ CreateInvalidFile
  \/ CreateNote
  \/ CreateInvalidNote

SpecInvalid == Init /\ [][NextInvalid]_vars

\* updates of commands and plans
NextUpdates ==
  \/ CreateCommand
  \/ UpdateCommand
  \/ DeleteCommand
  \/ CreateFewPlan
  \/ UpdatePlan
  \/ DeletePlan

SpecUpdates == Init /\ [][NextUpdates]_vars

\* createDrillPlan as the sequence of its writes, with backend failures
NextCreateSteps ==
  \/ CreateCommand
  \/ DeleteCommand
  \/ BeginCreatePlan
  \/ InsertHistoryRow
  \/ FailCreatePlan

SpecCreateSteps == Init /\ [][NextCreateSteps]_vars

\* duplicateDrillPlan as the sequence of its writes, with backend failures
NextDuplicateSteps ==
  \/ CreateCommand
  \/ CreateFewPlan
  \/ AttachFile
  \/ BeginDuplicatePlan
  \/ CopyFileRow
  \/ FailDuplicatePlan
  \/ FinishDuplicatePlan

SpecDuplicateSteps == Init /\ [][NextDuplicateSteps]_vars

\* reads against a backend that may not answer
NextOutage ==
  \/ CreateCommand
  \/ CreateFewPlan
  \/ CreateFile
  \/ ReadOperation

SpecOutage == Init /\ [][NextOutage]_vars

\* one pruneOldData next to requests that create, update and delete plans
NextPruneRace ==
  \/ CreateCommand
  \/ InsertFewPlan
  \/ UpdatePlan
  \/ DeletePlan
  \/ BeginSinglePrune
  \/ ListPrune
  \/ DeletePruned

SpecPruneRace == Init /\ [][NextPruneRace]_vars

\* two pruneOldData at once
NextPrunePair ==
  \/ CreateCommand
  \/ InsertPlan
  \/ BeginPrune
  \/ ListPrune
  \/ DeletePruned

SpecPrunePair == Init /\ [][NextPrunePair]_vars

\* the joined views of plans
NextViews ==
  \/ CreateCommand
  \/ DeleteCommand
  \/ CreatePlan
  \/ DeletePlan
  \/ GetPlan
  \/ ListPlans

SpecViews == Init /\ [][NextViews]_vars

\* pruning a store that holds attachments and notes
NextPruneFrame ==
  \/ CreateCommand
  \/ CreateFewPlan
  \/ CreateFile
  \/ AttachFile
  \/ CreateNote
  \/ Prune

SpecPruneFrame == Init /\ [][NextPruneFrame]_vars

(* ------------------------------ properties ----------------------------- *)
HistoryOf(rows, id) == { h \in rows : h.drillPlanId = id }

Flights(flightAssignment) ==
  IF flightAssignment = "both" THEN {"alpha", "tango"} ELSE {flightAssignment}

\* rows are one row per flight of flightAssignment, each executed at date
IsFanOut(rows, flightAssignment, date) ==
  /\ Cardinality(rows) = Cardinality(Flights(flightAssignment))
  /\ { h.flightType : h \in rows } = Flights(flightAssignment)
  /\ \A h \in rows : DecodeDate(h.executedAt) = date

\* C1: a successful createPlan(input) leaves, for the new plan id, exactly
\* the fan-out of the input (alpha -> one alpha row, tango -> one tango row,
\* both -> an alpha and a tango row, all executed at input.date and carrying
\* input.commandId), and leaves the history rows of every other plan as
\* they were.
C1_CreatePlanFanOut ==
  [][ (last'.op = "createPlan" /\ last'.result = "ok") =>
        LET input == last'.arg
            id == last'.ret
        IN /\ IsFanOut(HistoryOf(history', id), input.flightAssignment, input.date)
           /\ \A h \in HistoryOf(history', id) : h.commandId = input.commandId
           /\ history' \ HistoryOf(history', id) = history \ HistoryOf(history, id)
           /\ HistoryOf(history, id) = {} ]_vars

C1_Witness ==
  /\ last.op = "createPlan"
  /\ last.result = "ok"
  /\ last.arg.flightAssignment = "both"
  /\ Cardinality(HistoryOf(history, last.ret)) = 2
  /\ \E h \in history : h.drillPlanId # last.ret

Matching(c, f) == { h \in history : h.commandId = c /\ h.flightType = f }

\* C3: lastExecutionByFlight(c, f) returns a stored row of command c and
\* flight f whose executedAt is the maximum over the stored rows with that
\* command and flight, and returns empty exactly when no stored row matches.
C3_LastExecutionIsLatest ==
  last.op = "lastExecution" =>
    /\ (last.result = "undefined") <=> (Matching(last.arg[1], last.arg[2]) = {})
    /\ last.result = "defined" =>
         \E h \in Matching(last.arg[1], last.arg[2]) :
           /\ h.id = last.ret
           /\ \A g \in Matching(last.arg[1], last.arg[2]) :
                DecodeDate(g.executedAt) <= DecodeDate(h.executedAt)

C3_Witness ==
  /\ last.op = "lastExecution"
  /\ last.result = "defined"
  /\ \E h, g \in Matching(last.arg[1], last.arg[2]) :
       /\ h.id = last.ret
       /\ DecodeDate(g.executedAt) < DecodeDate(h.executedAt)

Dated(group) == { p \in group : PlanDate(p) # NoDate }

IsLatestOf(q, group) ==
  /\ PlanDate(q) # NoDate
  /\ \A p \in Dated(group) : PlanDate(p) <= PlanDate(q)

\* C4: prune never removes every latest-dated plan of a command: each
\* command that had a plan before prune has one after it, and a plan with the
\* command's maximum date survives.
C4_PruneKeepsLatest ==
  [][ last'.op = "prune" =>
        \A p \in plans :
          LET group == CommandPlans(Store, p.commandId) IN
          /\ \E q \in plans' : q.commandId = p.commandId
          /\ Dated(group) # {} =>
               \E q \in plans' : q \in group /\ IsLatestOf(q, group) ]_vars

\* C5: after prune, every command that had two or more plans is left with
\* exactly one plan, its latest, unless prune stopped because the measured
\* size was at or under the target.
C5_PruneLeavesLatestOrStopsUnderTarget ==
  [][ last'.op = "prune" =>
        \A p \in plans :
          LET group == CommandPlans(Store, p.commandId)
              left == { q \in plans' : q.commandId = p.commandId }
          IN Cardinality(group) >= 2 =>
               \/ last'.result = "under"
               \/ /\ Cardinality(left) = 1
                  /\ \A q \in left : q \in group /\ (Dated(group) # {} => IsLatestOf(q, group)) ]_vars

\* C6: after deleteCommand(c) returns, command c is absent, no file, note,
\* plan or history row has commandId c, and no file, note or history row
\* references a plan that belonged to c.
C6_DeleteCommandCascades ==
  [][ (last'.op = "deleteCommand" /\ last'.result # "error") =>
        LET c == last'.arg
            owned == Ids(CommandPlans(Store, c))
        IN /\ c \notin Ids(commands')
           /\ \A r \in plans' \cup files' \cup notes' \cup history' : r.commandId # c
           /\ \A r \in files' \cup notes' \cup history' : r.drillPlanId \notin owned ]_vars

\* C7: after deletePlan(p) returns true, plan p is absent, no file, note or
\* history row references p, and the rows that reference other plans are
\* unchanged.
C7_DeletePlanCascades ==
  [][ (last'.op = "deletePlan" /\ last'.result = "true") =>
        LET id == last'.arg IN
        /\ id \notin Ids(plans')
        /\ \A r \in files' \cup notes' \cup history' : r.drillPlanId # id
        /\ { r \in files' : r.drillPlanId # id } = { r \in files : r.drillPlanId # id }
        /\ { r \in notes' : r.drillPlanId # id } = { r \in notes : r.drillPlanId # id }
        /\ { r \in history' : r.drillPlanId # id } = { r \in history : r.drillPlanId # id } ]_vars

StoreUnchanged ==
  UNCHANGED <<commands, plans, files, notes, history, blobs>>

Collection(op) ==
  IF op \in {"deleteCommand", "getCommand", "updateCommand"} THEN commands
  ELSE IF op \in {"deletePlan", "getPlan", "updatePlan"} THEN plans
  ELSE IF op \in {"deleteFile", "getFile"} THEN files
  ELSE notes

\* C8: deletePlan, deleteCommand, deleteFile and deleteNote on an id that is
\* not stored return false, raise no error and leave the store unchanged.
C8_DeleteMissingReturnsFalse ==
  [][ ( /\ last'.op \in {"deletePlan", "deleteCommand", "deleteFile", "deleteNote"}
        /\ last'.arg \notin Ids(Collection(last'.op)) ) =>
        (last'.result = "false" /\ StoreUnchanged) ]_vars

\* C9: getCommand, getPlan and getFile on an id that is not stored return
\* an absent result, raise no error, and leave the store unchanged.
C9_GetMissingReturnsAbsent ==
  [][ last'.op \in {"getCommand", "getPlan", "getFile"} =>
        /\ StoreUnchanged
        /\ last'.arg \notin Ids(Collection(last'.op)) => last'.result = "undefined" ]_vars

C9_Witness ==
  /\ last.op \in {"getCommand", "getPlan", "getFile"}
  /\ last.arg \notin Ids(Collection(last.op))
  /\ last.arg # ForeignId
  /\ last.result = "undefined"

\* C10: a successful duplicatePlan(p, d2) adds exactly one plan, with the
\* commandId, flightAssignment and eventType of p and the date d2, and the
\* new plan's history rows are the fan-out of p's flightAssignment executed
\* at d2.
C10_DuplicateCopiesPlanAndFansOut ==
  [][ (last'.op = "duplicatePlan" /\ last'.result = "defined") =>
        LET source == Row(plans, last'.arg[1])
            d2 == last'.arg[2]
            added == plans' \ plans
        IN /\ plans \subseteq plans'
           /\ Cardinality(added) = 1
           /\ \A new \in added :
                /\ new.id = last'.ret
                /\ new.commandId = source.commandId
                /\ new.flightAssignment = source.flightAssignment
                /\ new.eventType = source.eventType
                /\ PlanDate(new) = d2
                /\ IsFanOut(HistoryOf(history', new.id), source.flightAssignment, d2) ]_vars

C10_Witness ==
  /\ last.op = "duplicatePlan"
  /\ last.result = "defined"
  /\ \E source, new \in plans :
       /\ source.id = last.arg[1]
       /\ new.id = last.ret
       /\ source.flightAssignment = "both"
       /\ PlanDate(source) # PlanDate(new)
       /\ Cardinality(HistoryOf(history, new.id)) = 2

FilesOf(rows, id) == { f \in rows : f.drillPlanId = id }

SameContent(f, g) ==
  /\ f.fileName = g.fileName
  /\ f.filePath = g.filePath
  /\ f.fileSize = g.fileSize
  /\ f.mimeType = g.mimeType

\* C11: after a successful duplicatePlan(p, d2) the files of the new plan
\* are in one-to-one correspondence with the files p had, each copy with the
\* fileName, filePath, fileSize and mimeType of its source, and the set of
\* blobs is the one before the call.
C11_DuplicateCopiesFileRows ==
  [][ (last'.op = "duplicatePlan" /\ last'.result = "defined") =>
        LET src == FilesOf(files, last'.arg[1])
            new == FilesOf(files', last'.ret)
        IN /\ Cardinality(new) = Cardinality(src)
           /\ \E m \in [src -> new] :
                /\ \A f, g \in src : m[f] = m[g] => f = g
                /\ \A f \in src : SameContent(f, m[f])
           /\ blobs' = blobs ]_vars

C11_Witness ==
  /\ last.op = "duplicatePlan"
  /\ last.result = "defined"
  /\ Cardinality(FilesOf(files, last.ret)) = 2
  /\ \E f, g \in FilesOf(files, last.ret) : f.filePath # g.filePath

\* C12: duplicatePlan(id, d2) with an id under which no plan is stored
\* returns undefined and leaves the whole store as it was.
C12_DuplicateMissingWritesNothing ==
  [][ (last'.op = "duplicatePlan" /\ last'.arg[1] \notin Ids(plans)) =>
        (last'.result = "undefined" /\ StoreUnchanged) ]_vars

C12_Witness ==
  /\ last.op = "duplicatePlan"
  /\ last.arg[1] \notin Ids(plans)
  /\ last.arg[1] # ForeignId
  /\ last.result = "undefined"
  /\ files # {}
  /\ notes # {}

\* C13: duplicatePlan never creates a note: the stored notes after
\* duplicatePlan(p, d2) are the stored notes before it.
C13_DuplicateCreatesNoNote ==
  [][ last'.op = "duplicatePlan" => notes' = notes ]_vars

\* C14: every stored plan's commandId is the id of a stored command.
C14_PlanCommandStored ==
  \A p \in plans : p.commandId \in Ids(commands)

\* C15: no stored history row has flightType both: the flightType of
\* every stored history row is alpha or tango.
C15_HistoryFlightNeverBoth ==
  \A h \in history : h.flightType \in {"alpha", "tango"}

C15_Witness ==
  /\ last.op \in {"createPlan", "duplicatePlan"}
  /\ last.result \in {"ok", "defined"}
  /\ \E p \in plans :
       /\ p.id = last.ret
       /\ p.flightAssignment = "both"
       /\ { h.flightType : h \in HistoryOf(history, p.id) } = {"alpha", "tango"}

\* the constraints of the insert schemas on the fields of a payload
ValidPayload(op, payload) ==
  IF op = "createCommand" THEN payload.name # "" /\ payload.type \in EventTypes
  ELSE IF op = "createPlan"
  THEN payload.flightAssignment \in FlightTypes /\ payload.eventType \in EventTypes
  ELSE IF op = "createFile"
  THEN payload.fileName # "" /\ payload.filePath # "" /\ payload.fileSize >= 0 /\ payload.mimeType # ""
  ELSE payload.content # "" /\ payload.authorName # ""

\* C16: createCommand, createPlan, createFile and createNote called with a
\* payload that violates a constraint of its insert schema report a failure
\* and leave the store as it was.
C16_InvalidCreateWritesNothing ==
  [][ ( /\ last'.op \in {"createCommand", "createPlan", "createFile", "createNote"}
        /\ ~ValidPayload(last'.op, last'.arg) ) =>
        (last'.result = "error" /\ StoreUnchanged) ]_vars

\* C17: updatePlan and updateCommand on an id under which nothing is stored
\* return undefined, raise no error and leave the store as it was, so that
\* no record exists under the id afterwards; updatePlan on a stored plan
\* sets its updatedAt to the time of the call.
C17_UpdateMissingCreatesNothing ==
  [][ last'.op \in {"updatePlan", "updateCommand"} =>
        /\ last'.arg \notin Ids(Collection(last'.op)) =>
             /\ last'.result = "undefined"
             /\ StoreUnchanged
        /\ (last'.op = "updatePlan" /\ last'.arg \in Ids(plans)) =>
             \E p \in plans' : p.id = last'.arg /\ p.updatedAt = now' ]_vars

\* C18: prune deletes a plan only when the size estimate taken just before
\* that deletion is greater than the target: the k-th deletion follows a
\* k-th measurement above the target, and a prune whose initial estimate is
\* at or under the target leaves the store as it was.
C18_PruneDeletesOnlyAboveTarget ==
  [][ last'.op = "prune" =>
        LET k == Cardinality(plans \ plans')
            measured == last'.ret
        IN IF backend = "sql"
           THEN /\ Len(measured) >= k
                /\ \A i \in 1..k : measured[i] > TargetSize
                /\ measured[1] <= TargetSize => StoreUnchanged
           ELSE getDatabaseSize(Store) <= TargetSize => StoreUnchanged ]_vars

\* q is not the most recent plan of its command: a plan of the same command
\* has a later date
NotMostRecent(q) ==
  \E r \in CommandPlans(Store, q.commandId) : PlanDate(r) > PlanDate(q)

\* C19: prune evicts oldest first across all commands: when a prune deletes
\* a plan p and retains a plan q that is not the most recent plan of its
\* command, the date of q is at or after the date of p.
C19_PruneEvictsOldestFirst ==
  [][ last'.op = "prune" =>
        \A p \in plans \ plans' :
          \A q \in plans \cap plans' :
            NotMostRecent(q) => PlanDate(q) >= PlanDate(p) ]_vars

\* C20: every stored history row references a stored plan and a stored
\* command, and the commandId of the referenced plan is the row's commandId.
C20_HistoryReferencesStored ==
  \A h \in history :
    /\ h.commandId \in Ids(commands)
    /\ \E p \in plans : p.id = h.drillPlanId /\ p.commandId = h.commandId

C22_PlanRowBeforeHistoryRows ==
  [][ /\ \A h \in history' : h.drillPlanId \in Ids(plans')
      /\ \A p \in plans' :
           ("tango" \in { h.flightType : h \in HistoryOf(history', p.id) } /\ p.flightAssignment = "both")
             => "alpha" \in { h.flightType : h \in HistoryOf(history', p.id) }
      /\ \A k \in Invocations :
           (inflight[k].op = "createPlan" /\ inflight'[k].op = "none" /\ last'.result = "error") =>
             /\ inflight[k].id \in Ids(plans')
             /\ Cardinality(HistoryOf(history', inflight[k].id))
                  < Cardinality(Flights(inflight[k].arg.flightAssignment))
             /\ StoreUnchanged ]_vars

C22_Witness ==
  /\ last.op = "createPlan"
  /\ last.result = "error"
  /\ \E p \in plans :
       /\ p.flightAssignment = "both"
       /\ { h.flightType : h \in HistoryOf(history, p.id) } = {"alpha"}
       /\ \A k \in Invocations : inflight[k].id # p.id

\* the files of a sequence
Range(s) == { s[i] : i \in 1..Len(s) }

\* C23: when a duplicatePlan ends after the new plan was created, the new
\* plan is stored with the file rows the call has copied, which are copies
\* of distinct files of the source;
\* if a file copy failed, so that the new plan has fewer files than the
\* source had, the caller gets an error, which is neither the plan of a
\* success nor the undefined of a missing source.
C23_FailedCopyIsReported ==
  [][ \A k \in Invocations :
        (inflight[k].op = "duplicatePlan" /\ inflight'[k].op = "none") =>
          LET call == inflight[k]
              copies == { f \in FilesOf(files', call.id) : f.id \in call.made }
          IN /\ call.id \in Ids(plans')
             /\ Cardinality(copies) = Cardinality(call.made)
             /\ \E m \in [copies -> Range(call.rows)] :
                  /\ \A f, g \in copies : m[f] = m[g] => f = g
                  /\ \A f \in copies : SameContent(f, m[f])
             /\ last'.op = "duplicatePlan"
             /\ Cardinality(copies) < Len(call.rows) =>
                  /\ last'.result = "error"
                  /\ last'.result \notin {"defined", "undefined"} ]_vars

C23_Witness ==
  /\ last.op = "duplicatePlan"
  /\ last.result = "error"
  /\ \A k \in Invocations : inflight[k].op = "none"
  /\ \E src, new \in plans :
       /\ src.id = last.arg[1]
       /\ new.id # src.id
       /\ Cardinality(FilesOf(files, src.id)) = 2
       /\ Cardinality(FilesOf(files, new.id)) = 1

\* C24: deleteFile on a stored file removes its metadata row and returns
\* true, whether or not the blob at the file's locator still exists.
C24_DeleteFileToleratesAbsentBlob ==
  [][ (last'.op = "deleteFile" /\ last'.arg \in Ids(files)) =>
        /\ last'.arg \notin Ids(files')
        /\ last'.result = "true" ]_vars

\* C25: a read that the backend fails to serve gives the caller an error,
\* never the undefined or the empty list that the same read returns when
\* the backend answers and nothing matches.
C25_FailedReadIsAnError ==
  [][ (last'.op \in ReadOps /\ ~last'.reachable) =>
        /\ last'.result = "error"
        /\ last'.result # EmptyResult(last'.op) ]_vars

\* invocation k, inside the loop of pruneOldData, takes this step
PruneStep(k) ==
  /\ inflight[k].op = "prune"
  /\ inflight[k].phase = "listed"
  /\ inflight'[k].op = "none" \/ inflight'[k].pos # inflight[k].pos

\* C26: a prune that runs next to createPlan, updatePlan and deletePlan
\* requests never deletes a plan that is, when it is deleted, the only plan
\* of its command or the one with the command's maximum date: another plan
\* of the command with a date at least as late stays.
C26_RacingPruneKeepsLatest ==
  [][ \A k \in Invocations :
        PruneStep(k) =>
          \A p \in plans \ plans' :
            \E q \in plans' :
              /\ q.commandId = p.commandId
              /\ PlanDate(q) # NoDate
              /\ PlanDate(q) >= PlanDate(p) ]_vars

\* C27: two prunes running at once delete no more than one prune would:
\* neither deletes a plan at a moment when the size of the database is
\* already at or under the target.
C27_ConcurrentPrunesNeverOverDelete ==
  [][ \A k \in Invocations :
        (PruneStep(k) /\ plans' # plans) => CurrentSize > TargetSize ]_vars

\* C28: in the Firebase adapters the blob named by the filePath of every
\* stored file row exists, in every state reached by createFile,
\* duplicatePlan and deleteFile: deleting one of two rows that share a
\* locator leaves the blob the other row points at.
C28_StoredFileHasBlob ==
  backend # "sql" => \A f \in files : f.filePath \in blobs

\* C29: getPlan(id) returns a joined view with a defined command for every
\* stored plan id and returns empty only for an id that is not stored;
\* listPlans returns every stored plan exactly once, each with a defined
\* command, in ascending order of date.
C29_PlanViewsCarryCommand ==
  /\ last.op = "getPlan" =>
       IF last.arg \in Ids(plans)
       THEN last.result = "defined" /\ joinedCommand(Store, Row(plans, last.arg)) = "defined"
       ELSE last.result = "undefined"
  /\ last.op = "listPlans" =>
       LET list == last.ret IN
       /\ Len(list) = Cardinality(plans)
       /\ { list[i].id : i \in 1..Len(list) } = Ids(plans)
       /\ \A i \in 1..Len(list) : list[i].command = "defined"
       /\ \A i, j \in 1..Len(list) : i < j => list[i].date <= list[j].date

\* C30: prune only removes: it creates and modifies no record and deletes no
\* command, and every file, note or history row it deletes references a
\* plan it deletes, so the rows attached to a command alone and the rows of
\* the plans it retains stay.
C30_PruneOnlyRemovesDeletedPlansRows ==
  [][ last'.op = "prune" =>
        /\ commands' = commands
        /\ blobs' = blobs
        /\ plans' \subseteq plans
        /\ files' \subseteq files
        /\ notes' \subseteq notes
        /\ history' \subseteq history
        /\ \A r \in (files \ files') \cup (notes \ notes') \cup (history \ history') :
             r.drillPlanId \in Ids(plans) \ Ids(plans') ]_vars

C30_Witness ==
  /\ last.op = "prune"
  /\ Cardinality(plans) < nextId.plan - 1
  /\ Cardinality(files) < nextId.file - 1
  /\ \E f \in files : f.drillPlanId \in Ids(plans)
  /\ \E h \in history : h.drillPlanId \in Ids(plans)
  /\ notes # {}
====
